---- MODULE Spec2Model ----
(***************************************************************************)
(* Model of client/gateway.js: the GatewayClient of a darkwallet gateway.  *)
(* One client instance owns handler_map (a plain JavaScript object used as *)
(* a map from property key to callback) and one websocket.  Every call of  *)
(* the API and every websocket event runs to completion on the event loop, *)
(* so each is one action; the order of the effects inside one run is kept  *)
(* in trace.                                                               *)
(***************************************************************************)
EXTENDS Integers, Sequences, FiniteSets, TLC

VARIABLES
    handler_map,   \* this.handler_map: own property key -> callback value
    readyState,    \* this.websocket.readyState
    op,            \* the call or event that ran last, with its arguments
    trace,         \* what that run did, in order
    dispatched,    \* number of requests registered so far
    requested,     \* id keys whose current entry had its request accepted by send
    newest,        \* address -> update handler of the latest acknowledged subscribe/renew
    previous       \* address -> update handler that newest[address] replaced

vars == <<handler_map, readyState, op, trace, dispatched, requested, newest, previous>>

(***************************************************************************)
(* Bounds.                                                                 *)
(***************************************************************************)
NumIds == 2        \* _random_integer is sampled from 0 .. NumIds-1
MaxDispatch == 2   \* requests registered in one behaviour

(***************************************************************************)
(* Values.                                                                 *)
(***************************************************************************)
Functions == {"f1", "f2"}            \* caller-supplied functions
NonFunctions == {"undefined"}        \* what a caller passes instead of one
Values == Functions \cup NonFunctions
\* What the callers of this model pass as a result callback (handler,
\* handle_fetch) and as an update handler (handle_update).
Callbacks == {"f1"} \cup NonFunctions
UpdateHandlers == Functions \cup NonFunctions
\* The (handle_fetch, handle_update) pairs passed to subscribe and renew.  A
\* closure whose handle_fetch is not a function fails before it looks at
\* handle_update, so one such pair is enough.
SubscribeHandlers ==
    {<<"f1", handle_update>> : handle_update \in UpdateHandlers}
    \cup {<<"undefined", "f2">>}
Addresses == {"a", "b"}
Params == {"p"}

FetchCommands == {"fetch_last_height", "fetch_transaction", "fetch_history",
                  "fetch_block_header", "fetch_block_transaction_hashes",
                  "fetch_spend"}

\* A JavaScript value that can sit in a handler position.
\*   value   : a caller-supplied value (a function of Functions, or undefined)
\*   fetch   : the closure function(response) of a fetch_* wrapper over fn
\*   sub     : the closure function(response) of subscribe/renew over
\*             handle_fetch (fn), handle_update (upd) and address
\*   builtin : a native function inherited from Object.prototype
\*   object  : a non-callable object inherited from Object.prototype
Val(v) == [kind |-> "value", fn |-> v, upd |-> "-", address |-> "-"]
FetchAdapter(handle_fetch) ==
    [kind |-> "fetch", fn |-> handle_fetch, upd |-> "-", address |-> "-"]
AckAdapter(address, handle_fetch, handle_update) ==
    [kind |-> "sub", fn |-> handle_fetch, upd |-> handle_update, address |-> address]
Undefined == Val("undefined")

\* typeof v === 'function'
IsFunction(v) ==
    \/ v.kind \in {"fetch", "sub", "builtin"}
    \/ v.kind = "value" /\ v.fn \in Functions

\* ToBoolean(v)
Truthy(v) == ~(v.kind = "value" /\ v.fn = "undefined")

(***************************************************************************)
(* Property keys.  handler_map[id] converts id with ToString.              *)
(***************************************************************************)
Digits == <<"0", "1", "2", "3", "4", "5", "6", "7", "8", "9">>

RECURSIVE ToKey(_)
ToKey(n) == IF n < 10 THEN Digits[n + 1]
            ELSE ToKey(n \div 10) \o Digits[(n % 10) + 1]

TopicKey(address) == "update." \o address

IdRange == 0 .. (NumIds - 1)
IdKeys == {ToKey(n) : n \in IdRange}

\* handler_map is created as {}: lookups also see what Object.prototype has.
ObjectPrototype ==
    ("constructor" :> [kind |-> "builtin", fn |-> "Object", upd |-> "-", address |-> "-"])
    @@ ("__proto__" :> [kind |-> "object", fn |-> "Object.prototype", upd |-> "-", address |-> "-"])

\* this.handler_map[key]
Get(map, key) ==
    IF key \in DOMAIN map THEN map[key]
    ELSE IF key \in DOMAIN ObjectPrototype THEN ObjectPrototype[key]
    ELSE Undefined

\* an assignment that keeps the value a key already has
put_if_absent(map, key, value) ==
    [k \in (DOMAIN map) \cup {key} |-> IF k \in DOMAIN map THEN map[k] ELSE value]

\* this.handler_map[key] = value
Put(map, key, value) ==
    [k \in (DOMAIN map) \cup {key} |-> IF k = key THEN value ELSE map[k]]

(***************************************************************************)
(* Inbound frames (evt.data) and what JSON.parse makes of them.            *)
(***************************************************************************)
NoFrame == [data |-> "-", name |-> "-", id |-> "-", address |-> "-",
            error |-> "-", has_result |-> FALSE, result |-> <<>>]

\* text that is not JSON
InvalidFrame == [NoFrame EXCEPT !.data = "invalid"]
\* the JSON text null
NullFrame == [NoFrame EXCEPT !.data = "null"]
\* {"id": id, "error": error, "result": result}; has_result = FALSE leaves
\* the result member out.  id is the property key ToString(response.id).
ResponseFrame(id, error, has_result, result) ==
    [data |-> "object", name |-> "-", id |-> id, address |-> "undefined",
     error |-> error, has_result |-> has_result, result |-> result]
\* {"name": "update", "address": address, ...}, with or without an id member
UpdateFrame(address, id) ==
    [data |-> "object", name |-> "update", id |-> id, address |-> address,
     error |-> "undefined", has_result |-> FALSE, result |-> <<>>]

FrameIds == IdKeys \cup {TopicKey(a) : a \in Addresses}
                   \cup {"undefined"} \cup DOMAIN ObjectPrototype

Frames ==
    {InvalidFrame, NullFrame}
    \cup {ResponseFrame(id, "null", TRUE, <<"r1">>) : id \in FrameIds}
    \cup {ResponseFrame(id, "err", TRUE, <<>>) : id \in IdKeys}
    \cup {ResponseFrame(id, "null", FALSE, <<>>) : id \in IdKeys}
    \cup {UpdateFrame(address, "undefined") : address \in Addresses \cup {"undefined"}}
    \cup {UpdateFrame(address, ToKey(0)) : address \in Addresses}

\* response["result"][0] of a frame that has a result array
Result0(frame) == IF Len(frame.result) >= 1 THEN frame.result[1] ELSE "undefined"

(***************************************************************************)
(* Events of a run.                                                        *)
(***************************************************************************)
Ev(ev) == [ev |-> ev, fn |-> "-", key |-> "-", id |-> -1, command |-> "-",
           params |-> <<>>, error |-> "-", result0 |-> "-", obj |-> NoFrame]

Thrown(what) == [Ev("throw") EXCEPT !.fn = what]
Sent(id, command, params) ==
    [Ev("send") EXCEPT !.id = id, !.command = command, !.params = params]
Registered(key) == [Ev("register") EXCEPT !.key = key]
Observed(frame) == [Ev("on_message") EXCEPT !.obj = frame]
Logged == [Ev("log") EXCEPT !.fn = "Handler not found"]
Invoked(key) == [Ev("invoke") EXCEPT !.key = key]
CalledWithPair(f, error, result0) ==
    [Ev("call") EXCEPT !.fn = f, !.error = error, !.result0 = result0]
CalledWithObject(f, frame) == [Ev("call") EXCEPT !.fn = f, !.obj = frame]

Events(kind) == SelectSeq(trace, LAMBDA e : e.ev = kind)
Throws == Len(Events("throw")) > 0

Calls == Events("call")

(***************************************************************************)
(* Static helpers of GatewayClient.                                        *)
(***************************************************************************)
\* _check_function with the typeof test left out
check_function_accepts_all(func) == TRUE

\* TRUE when _check_function(func) returns, FALSE when it throws
\* "Parameter is not a function".
_check_function(func) == IsFunction(func)

\* The values _random_integer() may return (sampled, see NumIds).
_random_integer == IdRange

\* this.websocket.send(message): TRUE when the call returns, FALSE when it
\* throws.  A connecting socket throws, an open one accepts; what a closing
\* or closed socket does is left to the transport.
websocket_send(state) ==
    CASE state = "open" -> {TRUE}
      [] state = "connecting" -> {FALSE}
      [] OTHER -> {TRUE, FALSE}

(***************************************************************************)
(* make_request and the wrappers over it.  A run is [map, trace]: the      *)
(* handler_map it leaves and what it did, in order.                        *)
(***************************************************************************)
\* make_request with the registration moved before the send
make_request_registers_first(map, command, params, handler, id, accepted) ==
    IF ~_check_function(handler)
    THEN [map |-> map, trace |-> <<Thrown("Parameter is not a function")>>]
    ELSE IF ~accepted
    THEN [map |-> Put(map, ToKey(id), handler),
          trace |-> <<Registered(ToKey(id)), Thrown("send failed")>>]
    ELSE [map |-> Put(map, ToKey(id), handler),
          trace |-> <<Registered(ToKey(id)), Sent(id, command, params)>>]

\* make_request leaving an entry behind when send throws
make_request_keeps_failed_entry(map, command, params, handler, id, accepted) ==
    IF ~_check_function(handler)
    THEN [map |-> map, trace |-> <<Thrown("Parameter is not a function")>>]
    ELSE IF ~accepted
    THEN [map |-> Put(map, ToKey(id), handler),
          trace |-> <<Thrown("send failed")>>]
    ELSE [map |-> Put(map, ToKey(id), handler),
          trace |-> <<Sent(id, command, params), Registered(ToKey(id))>>]

make_request_run(map, command, params, handler, id, accepted) ==
    IF ~_check_function(handler)
    THEN [map |-> map, trace |-> <<Thrown("Parameter is not a function")>>]
    ELSE IF ~accepted
    THEN [map |-> map, trace |-> <<Thrown("send failed")>>]
    ELSE [map |-> Put(map, ToKey(id), handler),
          trace |-> <<Sent(id, command, params), Registered(ToKey(id))>>]

\* fetch_last_height, fetch_transaction, fetch_history, fetch_block_header,
\* fetch_block_transaction_hashes, fetch_spend: the same body.
fetch_run(map, command, params, handle_fetch, id, accepted) ==
    IF ~_check_function(Val(handle_fetch))
    THEN [map |-> map, trace |-> <<Thrown("Parameter is not a function")>>]
    ELSE make_request_run(map, command, params, FetchAdapter(handle_fetch),
                          id, accepted)

\* subscribe/renew installing handle_update when called, not when acknowledged
subscribe_registers_at_call(map, command, address, handle_fetch, handle_update, id, accepted) ==
    LET run == make_request_run(map, command, <<address>>,
                                AckAdapter(address, handle_fetch, handle_update),
                                id, accepted)
    IN  IF Len(run.trace) = 2 /\ Truthy(Val(handle_update))
        THEN [map |-> Put(run.map, TopicKey(address), Val(handle_update)),
              trace |-> run.trace \o <<Registered(TopicKey(address))>>]
        ELSE run

\* subscribe and renew: the same body but for the command.
subscribe_run(map, command, address, handle_fetch, handle_update, id, accepted) ==
    make_request_run(map, command, <<address>>,
                     AckAdapter(address, handle_fetch, handle_update),
                     id, accepted)

(***************************************************************************)
(* _on_message and the callbacks it reaches.                               *)
(***************************************************************************)
\* the fetch_* closure treating a remote error as a failure of its own
fetch_callback_error_as_failure(map, handle_fetch, response) ==
    IF ~response.has_result \/ handle_fetch \notin Functions
    THEN [map |-> map, trace |-> <<Thrown("TypeError")>>]
    ELSE IF response.error # "null"
    THEN [map |-> map, trace |-> <<Thrown(response.error)>>]
    ELSE [map |-> map,
          trace |-> <<CalledWithPair(handle_fetch, response.error,
                                     Result0(response))>>]

\* function(response) { handle_fetch(response["error"], response["result"][0]); }
\* of the fetch_* wrappers
fetch_callback(map, handle_fetch, response) ==
    IF ~response.has_result \/ handle_fetch \notin Functions
    THEN [map |-> map, trace |-> <<Thrown("TypeError")>>]
    ELSE [map |-> map,
          trace |-> <<CalledWithPair(handle_fetch, response.error,
                                     Result0(response))>>]

\* the registration of handle_update keeping a handler that is already there
register_update_keeps_first(map, address, handle_update) ==
    IF Truthy(Val(handle_update)) /\ TopicKey(address) \notin DOMAIN map
    THEN [map |-> Put(map, TopicKey(address), Val(handle_update)),
          trace |-> <<Registered(TopicKey(address))>>]
    ELSE [map |-> map, trace |-> <<>>]

\* the registration of handle_update without the if (handle_update) test
register_update_unconditional(map, address, handle_update) ==
    [map |-> Put(map, TopicKey(address), Val(handle_update)),
     trace |-> <<Registered(TopicKey(address))>>]

\* if (handle_update) { self.handler_map["update." + address] = handle_update; }
register_update(map, address, handle_update) ==
    IF Truthy(Val(handle_update))
    THEN [map |-> Put(map, TopicKey(address), Val(handle_update)),
          trace |-> <<Registered(TopicKey(address))>>]
    ELSE [map |-> map, trace |-> <<>>]

\* the subscribe/renew closure installing handle_update only when the ack
\* carries no error
subscribe_callback_skips_on_error(map, address, handle_fetch, handle_update, response) ==
    IF ~response.has_result \/ handle_fetch \notin Functions
    THEN [map |-> map, trace |-> <<Thrown("TypeError")>>]
    ELSE LET reg == IF response.error = "null"
                    THEN register_update(map, address, handle_update)
                    ELSE [map |-> map, trace |-> <<>>]
         IN  [map |-> reg.map,
              trace |-> <<CalledWithPair(handle_fetch, response.error,
                                         Result0(response))>> \o reg.trace]

\* function(response) { handle_fetch(...); if (handle_update) ... } of
\* subscribe and renew
subscribe_callback(map, address, handle_fetch, handle_update, response) ==
    IF ~response.has_result \/ handle_fetch \notin Functions
    THEN [map |-> map, trace |-> <<Thrown("TypeError")>>]
    ELSE LET reg == register_update(map, address, handle_update)
         IN  [map |-> reg.map,
              trace |-> <<CalledWithPair(handle_fetch, response.error,
                                         Result0(response))>> \o reg.trace]

\* the handler queued for later instead of called
handler_call_deferred(map, handler, response) == [map |-> map, trace |-> <<>>]

\* handler(response) at the end of _on_message
handler_call(map, handler, response) ==
    CASE handler.kind = "value" ->
            \* a caller's function registered as it is
            IF handler.fn \in Functions
            THEN [map |-> map, trace |-> <<CalledWithObject(handler.fn, response)>>]
            ELSE [map |-> map, trace |-> <<Thrown("TypeError")>>]
      [] handler.kind = "fetch" -> fetch_callback(map, handler.fn, response)
      [] handler.kind = "sub" ->
            subscribe_callback(map, handler.address, handler.fn, handler.upd,
                               response)
      [] handler.kind = "builtin" -> [map |-> map, trace |-> <<>>]
      [] OTHER -> [map |-> map, trace |-> <<Thrown("TypeError")>>]

\* the key taken from response.id whenever the frame has one
correlation_key_prefers_id(response) ==
    IF response.name = "update" /\ response.id = "undefined"
    THEN TopicKey(response.address)
    ELSE response.id

\* id = response.id; if (response.name == "update") id = "update." + response.address
correlation_key(response) ==
    IF response.name = "update" THEN TopicKey(response.address) ELSE response.id

\* _on_message deleting the entry it has delivered to
_on_message_reclaims(map, frame) ==
    IF frame.data = "invalid"
    THEN [map |-> map, trace |-> <<Observed(frame), Thrown("SyntaxError")>>]
    ELSE IF frame.data = "null"
    THEN [map |-> map, trace |-> <<Observed(frame), Thrown("TypeError")>>]
    ELSE LET id == correlation_key(frame)
             handler == Get(map, id)
             run == handler_call(map, handler, frame)
         IN  IF ~Truthy(handler)
             THEN [map |-> map, trace |-> <<Observed(frame), Logged>>]
             ELSE [map |-> [k \in (DOMAIN run.map) \ {id} |-> run.map[k]],
                   trace |-> <<Observed(frame), Invoked(id)>> \o run.trace]

\* _on_message calling the on_message hook after JSON.parse
_on_message_parses_first(map, frame) ==
    IF frame.data = "invalid"
    THEN [map |-> map, trace |-> <<Thrown("SyntaxError")>>]
    ELSE IF frame.data = "null"
    THEN [map |-> map, trace |-> <<Observed(frame), Thrown("TypeError")>>]
    ELSE LET id == correlation_key(frame)
             handler == Get(map, id)
             run == handler_call(map, handler, frame)
         IN  IF ~Truthy(handler)
             THEN [map |-> map, trace |-> <<Observed(frame), Logged>>]
             ELSE [map |-> run.map,
                   trace |-> <<Observed(frame), Invoked(id)>> \o run.trace]

\* this.on_message(evt); JSON.parse; key lookup; handler(response)
_on_message_run(map, frame) ==
    IF frame.data = "invalid"
    THEN [map |-> map, trace |-> <<Observed(frame), Thrown("SyntaxError")>>]
    ELSE IF frame.data = "null"
    THEN [map |-> map, trace |-> <<Observed(frame), Thrown("TypeError")>>]
    ELSE LET id == correlation_key(frame)
             handler == Get(map, id)
             run == handler_call(map, handler, frame)
         IN  IF ~Truthy(handler)
             THEN [map |-> map, trace |-> <<Observed(frame), Logged>>]
             ELSE [map |-> run.map,
                   trace |-> <<Observed(frame), Invoked(id)>> \o run.trace]

\* on_error swallowing the event
on_error_absorbs == <<>>

\* on_close(evt): empty body.  on_error(evt): throw evt.
on_close_run == <<>>
on_error_run == <<Thrown("evt")>>

(***************************************************************************)
(* State machine.                                                          *)
(***************************************************************************)
NoOp == [name |-> "new", command |-> "-", params |-> <<>>, handler |-> "-",
         handle_update |-> "-", address |-> "-", frame |-> NoFrame]

Init ==
    /\ handler_map = [k \in {} |-> Undefined]
    /\ readyState = "connecting"
    /\ op = NoOp
    /\ trace = <<>>
    /\ dispatched = 0
    /\ requested = {}
    /\ newest = [a \in Addresses |-> "-"]
    /\ previous = [a \in Addresses |-> "-"]

RegisteredKeys(t) == {t[i].key : i \in {j \in 1 .. Len(t) : t[j].ev = "register"}}
SentKeys(t) == {ToKey(t[i].id) : i \in {j \in 1 .. Len(t) : t[j].ev = "send"}}

\* The state a dispatching call leaves, from its run.
Dispatched(run, call) ==
    /\ dispatched < MaxDispatch
    /\ handler_map' = run.map
    /\ trace' = run.trace
    /\ op' = call
    /\ dispatched' = dispatched + Cardinality(RegisteredKeys(run.trace))
    /\ requested' = (requested \ RegisteredKeys(run.trace))
                       \cup (RegisteredKeys(run.trace) \cap SentKeys(run.trace))
    /\ UNCHANGED <<readyState, newest, previous>>

make_request ==
    \E command \in {"fetch_last_height"}, handler \in Callbacks,
       id \in _random_integer, accepted \in websocket_send(readyState) :
        Dispatched(make_request_run(handler_map, command, <<>>, Val(handler),
                                    id, accepted),
                   [NoOp EXCEPT !.name = "make_request", !.command = command,
                                !.handler = handler])

Fetch(command, params) ==
    \E handle_fetch \in Callbacks,
       id \in _random_integer, accepted \in websocket_send(readyState) :
        Dispatched(fetch_run(handler_map, command, params, handle_fetch,
                             id, accepted),
                   [NoOp EXCEPT !.name = command, !.command = command,
                                !.params = params, !.handler = handle_fetch])

fetch_last_height == Fetch("fetch_last_height", <<>>)
fetch_transaction == \E tx_hash \in Params : Fetch("fetch_transaction", <<tx_hash>>)
fetch_history == \E address \in Addresses : Fetch("fetch_history", <<address>>)
fetch_block_header == \E index \in Params : Fetch("fetch_block_header", <<index>>)
fetch_block_transaction_hashes ==
    \E index \in Params : Fetch("fetch_block_transaction_hashes", <<index>>)
fetch_spend == \E outpoint \in Params : Fetch("fetch_spend", <<outpoint>>)

Subscription(name, command) ==
    \E address \in Addresses, handlers \in SubscribeHandlers,
       id \in _random_integer, accepted \in websocket_send(readyState) :
        Dispatched(subscribe_run(handler_map, command, address, handlers[1],
                                 handlers[2], id, accepted),
                   [NoOp EXCEPT !.name = name, !.command = command,
                                !.params = <<address>>, !.address = address,
                                !.handler = handlers[1],
                                !.handle_update = handlers[2]])

subscribe == Subscription("subscribe", "subscribe_address")
renew == Subscription("renew", "renew_address")

\* A frame is the acknowledgement of a subscribe/renew when it is a response
\* with a result whose id holds the closure of a subscribe/renew with an
\* invocable ack handler.
Acknowledges(map, frame) ==
    /\ frame.data = "object"
    /\ frame.name # "update"
    /\ frame.has_result
    /\ frame.id \in DOMAIN map
    /\ map[frame.id].kind = "sub"
    /\ map[frame.id].fn \in Functions

\* websocket.onmessage
_on_message ==
    /\ readyState = "open"
    /\ \E frame \in Frames :
        LET run == _on_message_run(handler_map, frame)
            sub == handler_map[frame.id]
            installs == Acknowledges(handler_map, frame) /\ sub.upd \in Functions
        IN  /\ handler_map' = run.map
            /\ trace' = run.trace
            /\ op' = [NoOp EXCEPT !.name = "_on_message", !.frame = frame]
            /\ newest' = IF installs
                         THEN [newest EXCEPT ![sub.address] = sub.upd]
                         ELSE newest
            /\ previous' = IF installs /\ newest[sub.address] # sub.upd
                           THEN [previous EXCEPT ![sub.address] = newest[sub.address]]
                           ELSE previous
    /\ UNCHANGED <<readyState, dispatched, requested>>

\* websocket.onopen: handle_connect()
onopen ==
    /\ readyState = "connecting"
    /\ readyState' = "open"
    /\ op' = [NoOp EXCEPT !.name = "onopen"]
    /\ trace' = <<Ev("handle_connect")>>
    /\ UNCHANGED <<handler_map, dispatched, requested, newest, previous>>

\* websocket.onclose
on_close ==
    /\ readyState # "closed"
    /\ readyState' = "closed"
    /\ op' = [NoOp EXCEPT !.name = "on_close"]
    /\ trace' = on_close_run
    /\ UNCHANGED <<handler_map, dispatched, requested, newest, previous>>

\* websocket.onerror
on_error ==
    /\ readyState # "closed"
    /\ op' = [NoOp EXCEPT !.name = "on_error"]
    /\ trace' = on_error_run
    /\ UNCHANGED <<handler_map, readyState, dispatched, requested, newest, previous>>

Next ==
    \/ make_request
    \/ fetch_last_height
    \/ fetch_transaction
    \/ fetch_history
    \/ fetch_block_header
    \/ fetch_block_transaction_hashes
    \/ fetch_spend
    \/ subscribe
    \/ renew
    \/ _on_message
    \/ onopen
    \/ on_close
    \/ on_error

Spec == Init /\ [][Next]_vars

(***************************************************************************)
(* Properties.                                                             *)
(***************************************************************************)
InvalidHandler == Thrown("Parameter is not a function")

\* op is the delivery of a frame that JSON.parse turns into an object
RoutedObject == op.name = "_on_message" /\ op.frame.data = "object"

\* C1: a call of make_request or of a fetch_* wrapper whose callback is not a
\* function throws "Parameter is not a function" and does nothing else: no
\* frame is sent and handler_map is left as it was.
C1_InvalidHandlerRejected ==
    [][ (/\ op'.name \in {"make_request"} \cup FetchCommands
         /\ op'.handler \notin Functions)
        => (/\ trace' = <<InvalidHandler>>
            /\ handler_map' = handler_map) ]_vars

\* C1 witness: a fetch_* wrapper was refused on an open socket while the
\* table already held an entry.
C1_Witness ==
    /\ op.name \in FetchCommands
    /\ op.handler \notin Functions
    /\ readyState = "open"
    /\ trace = <<InvalidHandler>>
    /\ DOMAIN handler_map # {}

\* C2: a call of subscribe or renew whose ack callback (handle_fetch) is not
\* a function fails at call time with "Parameter is not a function" and sends
\* no subscribe_address / renew_address frame (stated for an open socket).
C2_SubscribeRejectsInvalidAck ==
    (/\ op.name \in {"subscribe", "renew"}
     /\ op.handler \notin Functions
     /\ readyState = "open")
    => (/\ trace = <<InvalidHandler>>
        /\ Events("send") = <<>>)

\* C3: in every dispatch the entry id -> callback is in handler_map no later
\* than the moment the request is handed to websocket.send: every send of a
\* run is preceded, in that run, by the registration of its id.
C3_RegisteredBeforeSend ==
    \A i \in 1 .. Len(trace) :
        trace[i].ev = "send"
        => \E j \in 1 .. (i - 1) :
              trace[j].ev = "register" /\ trace[j].key = ToKey(trace[i].id)

\* C4: a callback registered under a request id is invoked only by the
\* delivery of an inbound frame that carries that id, at most once for that
\* frame, and only when the request it was registered for has been sent.
C4_InvokedOncePerFrameAfterSend ==
    \A i \in 1 .. Len(trace) :
        (trace[i].ev = "invoke" /\ trace[i].key \in IdKeys)
        => (/\ op.name = "_on_message"
            /\ op.frame.id = trace[i].key
            /\ Len(Events("invoke")) = 1
            /\ trace[i].key \in requested)

\* C4 witness: a response frame reached the callback registered under its id.
C4_Witness ==
    /\ RoutedObject
    /\ op.frame.id \in IdKeys
    /\ Events("invoke") = <<Invoked(op.frame.id)>>
    /\ Len(Calls) = 1

\* C5: a frame that is not JSON fires the frame-observed hook, invokes no
\* callback and lets no failure out of _on_message.
C5_MalformedFrameDropped ==
    (op.name = "_on_message" /\ op.frame.data = "invalid")
    => (/\ Len(trace) >= 1
        /\ trace[1] = Observed(op.frame)
        /\ Calls = <<>>
        /\ ~Throws)

\* op is the delivery of an update frame for address
UpdateFor(address) ==
    /\ RoutedObject
    /\ op.frame.name = "update"
    /\ op.frame.address = address

\* the first element of a result array, undefined when there is none
First(result) == IF result = <<>> THEN "undefined" ELSE Head(result)

\* C6: once a subscribe/renew of T with update handler h1 has been
\* acknowledged and a later one with a different handler h2 has been
\* acknowledged, an update frame for T invokes h2 exactly once, with the
\* frame, and does not invoke h1.
C6_RenewedHandlerOnly ==
    \A T \in Addresses :
        (/\ UpdateFor(T)
         /\ newest[T] \in Functions
         /\ previous[T] \in Functions)
        => (/\ Calls = <<CalledWithObject(newest[T], op.frame)>>
            /\ \A i \in 1 .. Len(trace) :
                  trace[i].ev = "call" => trace[i].fn # previous[T])

\* C6 witness: an update frame for T was delivered after h2 had replaced h1.
C6_Witness ==
    \E T \in Addresses :
        /\ UpdateFor(T)
        /\ newest[T] \in Functions
        /\ previous[T] \in Functions
        /\ newest[T] # previous[T]
        /\ Len(Calls) = 1

\* C7: a parseable frame whose correlation key (the id, or "update." +
\* address for an update frame) has no registered handler is dropped: the
\* hook fires, "Handler not found" is logged, nothing is invoked or thrown.
C7_UnroutableFrameDropped ==
    (/\ RoutedObject
     /\ (IF op.frame.name = "update"
         THEN TopicKey(op.frame.address)
         ELSE op.frame.id) \notin DOMAIN handler_map)
    => trace = <<Observed(op.frame), Logged>>

\* C8: a response frame whose id was registered by a fetch_* wrapper invokes
\* the caller's handler once with (frame.error, frame.result[0]), whatever
\* the error is, throws nothing and leaves handler_map as it was.
C8_FetchGetsErrorAndResult ==
    [][ (/\ op'.name = "_on_message"
         /\ op'.frame.data = "object"
         /\ op'.frame.name # "update"
         /\ op'.frame.has_result
         /\ op'.frame.id \in DOMAIN handler_map
         /\ handler_map[op'.frame.id].kind = "fetch")
        => (/\ trace' = <<Observed(op'.frame), Invoked(op'.frame.id),
                          CalledWithPair(handler_map[op'.frame.id].fn,
                                         op'.frame.error,
                                         First(op'.frame.result))>>
            /\ handler_map' = handler_map) ]_vars

\* C8 witness: a response with a non-null error reached a fetch_* caller.
C8_Witness ==
    /\ RoutedObject
    /\ op.frame.id \in DOMAIN handler_map
    /\ handler_map[op.frame.id].kind = "fetch"
    /\ op.frame.error = "err"
    /\ Calls = <<CalledWithPair("f1", "err", "undefined")>>

\* C9: once subscribe(A, onAck, onUpdate) has been acknowledged, the delivery
\* of an update frame for A does exactly this: the hook, the entry under
\* "update." + A, and one call of onUpdate with the whole frame.
C9_UpdateReachesItsHandler ==
    \A A \in Addresses :
        (UpdateFor(A) /\ newest[A] \in Functions)
        => trace = <<Observed(op.frame), Invoked(TopicKey(A)),
                     CalledWithObject(newest[A], op.frame)>>

\* C9 witness: an update for A, carrying an id that is registered too, was
\* delivered while another address had a different update handler.
C9_Witness ==
    \E A \in Addresses, B \in Addresses :
        /\ A # B
        /\ UpdateFor(A)
        /\ op.frame.id \in DOMAIN handler_map
        /\ newest[A] \in Functions
        /\ newest[B] \in Functions
        /\ newest[A] # newest[B]
        /\ Len(Calls) = 1

\* C10: the acknowledgement of a subscribe/renew that was called without an
\* update handler invokes the ack handler with (error, result[0]) and leaves
\* handler_map, the entry of the topic key included, exactly as it was.
C10_AckWithoutUpdateHandler ==
    [][ (/\ op'.name = "_on_message"
         /\ Acknowledges(handler_map, op'.frame)
         /\ handler_map[op'.frame.id].upd \notin Functions)
        => (/\ trace' = <<Observed(op'.frame), Invoked(op'.frame.id),
                          CalledWithPair(handler_map[op'.frame.id].fn,
                                         op'.frame.error,
                                         First(op'.frame.result))>>
            /\ handler_map' = handler_map) ]_vars

\* C10 witness: such an acknowledgement arrived while the topic had an
\* update handler, which is still there.
C10_Witness ==
    /\ RoutedObject
    /\ Acknowledges(handler_map, op.frame)
    /\ handler_map[op.frame.id].upd \notin Functions
    /\ TopicKey(handler_map[op.frame.id].address) \in DOMAIN handler_map
    /\ Len(Calls) = 1

TopicKeys == {TopicKey(a) : a \in Addresses}
DispatchNames == {"make_request", "subscribe", "renew"} \cup FetchCommands

\* the entries of map under the topic keys
Topics(map) == [k \in (DOMAIN map) \cap TopicKeys |-> map[k]]

\* C11: with the hooks as GatewayClient defines them, an error signalled by
\* the websocket is thrown on to the environment, and the close signal does
\* nothing and throws nothing.
C11_ErrorPropagatesCloseSilent ==
    /\ op.name = "on_error" => trace = <<Thrown("evt")>>
    /\ op.name = "on_close" => trace = <<>>

\* C11 witness: the websocket signalled an error while requests were
\* registered, and the event was thrown.
C11_Witness ==
    /\ op.name = "on_error"
    /\ Throws
    /\ DOMAIN handler_map # {}

\* C12: handle_update is registered under the topic key only in the run that
\* routes the ack of its subscribe/renew, after the ack handler was called,
\* never by the call itself; until then the topic entries stay as they are,
\* and an update frame for a topic without an entry is dropped.
C12_UpdateHandlerRegisteredOnAck ==
    [][ /\ op'.name \in DispatchNames => Topics(handler_map') = Topics(handler_map)
        /\ Topics(handler_map') # Topics(handler_map)
              => \E i \in 1 .. Len(trace') :
                    trace'[i].ev = "register" /\ trace'[i].key \in TopicKeys
        /\ \A i \in 1 .. Len(trace') :
              (trace'[i].ev = "register" /\ trace'[i].key \in TopicKeys)
              => (/\ op'.name = "_on_message"
                  /\ Acknowledges(handler_map, op'.frame)
                  /\ trace'[i].key = TopicKey(handler_map[op'.frame.id].address)
                  /\ handler_map'[trace'[i].key] = Val(handler_map[op'.frame.id].upd)
                  /\ \E j \in 1 .. (i - 1) :
                        /\ trace'[j].ev = "call"
                        /\ trace'[j].fn = handler_map[op'.frame.id].fn)
        /\ (/\ op'.name = "_on_message"
            /\ op'.frame.data = "object"
            /\ op'.frame.name = "update"
            /\ TopicKey(op'.frame.address) \notin DOMAIN handler_map)
           => trace' = <<Observed(op'.frame), Logged>>
        /\ (/\ op'.name = "_on_message"
            /\ op'.frame.data = "object"
            /\ op'.frame.name = "update"
            /\ TopicKey(op'.frame.address) \in DOMAIN handler_map)
           => trace' = <<Observed(op'.frame),
                         Invoked(TopicKey(op'.frame.address)),
                         CalledWithObject(
                             handler_map[TopicKey(op'.frame.address)].fn,
                             op'.frame)>> ]_vars

\* C12 witness: an update frame for a topic arrived while the subscribe that
\* carries its update handler was registered but not acknowledged, and was
\* dropped.
C12_Witness ==
    \E T \in Addresses :
        /\ RoutedObject
        /\ op.frame.name = "update"
        /\ op.frame.address = T
        /\ trace = <<Observed(op.frame), Logged>>
        /\ \E k \in DOMAIN handler_map :
              /\ handler_map[k].kind = "sub"
              /\ handler_map[k].address = T
              /\ handler_map[k].fn \in Functions
              /\ handler_map[k].upd \in Functions

\* the call events of a trace
CallsOf(t) == SelectSeq(t, LAMBDA e : e.ev = "call")

\* C13: the keys of handler_map never shrink, whatever the operation; only a
\* dispatch changes the entry of an id key, so a sent request stays
\* registered, a response frame whose id is registered invokes that entry,
\* and the same response frame delivered once more to the state a delivery
\* leaves invokes it again with the same calls.
C13_TableNeverShrinks ==
    [][ /\ DOMAIN handler_map \subseteq DOMAIN handler_map'
        /\ requested' \subseteq DOMAIN handler_map'
        /\ op'.name \notin DispatchNames
              => \A k \in (DOMAIN handler_map) \cap IdKeys :
                    handler_map'[k] = handler_map[k]
        /\ (/\ op'.name = "_on_message"
            /\ op'.frame.data = "object"
            /\ op'.frame.name # "update"
            /\ op'.frame.id \in (DOMAIN handler_map) \cap IdKeys)
           => /\ trace'[2] = Invoked(op'.frame.id)
              /\ op'.frame.id \in DOMAIN handler_map'
        /\ (/\ op'.name = "_on_message"
            /\ Len(trace') >= 2
            /\ trace'[2].ev = "invoke"
            /\ trace'[2].key \in IdKeys)
           => LET again == _on_message_run(handler_map', op'.frame)
              IN  /\ again.map = handler_map'
                  /\ again.trace[2] = trace'[2]
                  /\ CallsOf(again.trace) = CallsOf(trace') ]_vars

\* C13 witness: a response was delivered to a request's callback, the
\* request is still registered under its id, and the same frame would be
\* delivered to it again.
C13_Witness ==
    /\ RoutedObject
    /\ op.frame.name # "update"
    /\ Len(trace) = 3
    /\ trace[2] = Invoked(op.frame.id)
    /\ trace[3].ev = "call"
    /\ op.frame.id \in requested
    /\ op.frame.id \in DOMAIN handler_map
    /\ _on_message_run(handler_map, op.frame).trace = trace

\* C14: a callback runs only inside the _on_message run of the frame it is
\* called for, after that frame was observed and with arguments taken from
\* that frame; an entry that is invoked is called in that same run, and no
\* other operation calls a callback, so frames are served in delivery
\* order.
C14_CallbacksInDeliveryOrder ==
    /\ op.name # "_on_message" => Calls = <<>>
    /\ op.name = "_on_message" =>
          /\ trace[1] = Observed(op.frame)
          /\ \A i \in 1 .. Len(trace) :
                trace[i].ev = "call"
                => (/\ i = 3
                    /\ trace[2].ev = "invoke"
                    /\ \/ trace[i].obj = op.frame
                       \/ /\ trace[i].error = op.frame.error
                          /\ trace[i].result0 = First(op.frame.result))
          /\ (/\ Len(trace) >= 2
              /\ trace[2].ev = "invoke"
              /\ trace[2].key \notin DOMAIN ObjectPrototype
              /\ ~Throws)
             => Len(Calls) = 1

\* C14 witness: with two requests registered, a frame for one of them was
\* delivered and its callback called in that run.
C14_Witness ==
    /\ RoutedObject
    /\ Cardinality((DOMAIN handler_map) \cap IdKeys) >= 2
    /\ op.frame.id \in (DOMAIN handler_map) \cap IdKeys
    /\ Len(Calls) = 1
    /\ trace[2] = Invoked(op.frame.id)

\* the handler a dispatch registers
ExpectedHandler(call) ==
    IF call.name = "make_request" THEN Val(call.handler)
    ELSE IF call.name \in FetchCommands THEN FetchAdapter(call.handler)
    ELSE AckAdapter(call.address, call.handler, call.handle_update)

\* C15: a dispatch that registers under an id replaces whatever was there
\* with its own handler and throws nothing; nothing but a dispatch changes
\* the entry of an id, and a response frame for the id calls the function of
\* the entry that is there now, so the replaced callback is not reached.
C15_CollisionReplacesSilently ==
    [][ /\ op'.name \in DispatchNames
           => \A i \in 1 .. Len(trace') :
                 trace'[i].ev = "register"
                 => /\ trace'[i].key \in IdKeys
                    /\ handler_map'[trace'[i].key] = ExpectedHandler(op')
                    /\ \A j \in 1 .. Len(trace') : trace'[j].ev # "throw"
        /\ \A k \in (DOMAIN handler_map) \cap IdKeys :
              handler_map'[k] # handler_map[k]
              => /\ op'.name \in DispatchNames
                 /\ trace'[Len(trace')] = Registered(k)
        /\ (/\ op'.name = "_on_message"
            /\ op'.frame.data = "object"
            /\ op'.frame.name # "update"
            /\ op'.frame.id \in (DOMAIN handler_map) \cap IdKeys)
           => \A i \in 1 .. Len(trace') :
                 trace'[i].ev = "call"
                 => trace'[i].fn = handler_map[op'.frame.id].fn ]_vars

\* C15 witness: two dispatches registered under one id and a response frame
\* for that id was delivered to the entry.
C15_Witness ==
    /\ RoutedObject
    /\ dispatched >= 2
    /\ Cardinality((DOMAIN handler_map) \cap IdKeys) = 1
    /\ op.frame.id \in (DOMAIN handler_map) \cap IdKeys
    /\ Len(Calls) = 1

\* C16: every _on_message run starts with exactly one call of the on_message
\* hook for the frame, before the parse, the lookup and any callback.
C16_HookFirstAndOnce ==
    op.name = "_on_message" =>
        /\ Len(trace) >= 1
        /\ trace[1] = Observed(op.frame)
        /\ Events("on_message") = <<Observed(op.frame)>>

\* C16 witness: a frame that is not JSON was observed by the hook before the
\* parse failed.
C16_Witness ==
    /\ op.name = "_on_message"
    /\ op.frame = InvalidFrame
    /\ trace = <<Observed(InvalidFrame), Thrown("SyntaxError")>>

\* C17: a dispatch whose websocket.send throws lets that failure out to the
\* caller as the only effect of the call: nothing is registered and
\* handler_map is what it was before.
C17_FailedSendRegistersNothing ==
    [][ (/\ op'.name \in DispatchNames
         /\ \E i \in 1 .. Len(trace') : trace'[i] = Thrown("send failed"))
        => /\ trace' = <<Thrown("send failed")>>
           /\ handler_map' = handler_map
           /\ requested' = requested ]_vars

\* C17 witness: with a request registered, a later dispatch with a valid
\* callback failed in send.
C17_Witness ==
    /\ op.name \in DispatchNames
    /\ op.handler \in Functions
    /\ trace = <<Thrown("send failed")>>
    /\ (DOMAIN handler_map) \cap IdKeys # {}
    /\ dispatched < MaxDispatch

\* C18: when the ack of a subscribe/renew that has an update handler is
\* routed to the closure, the handler is registered under the topic key in
\* that run whether the ack's error is null or not, and an update frame for
\* the topic delivered next reaches it.
C18_AckErrorStillInstalls ==
    [][ (/\ op'.name = "_on_message"
         /\ Acknowledges(handler_map, op'.frame)
         /\ handler_map[op'.frame.id].upd \in Functions)
        => LET sub == handler_map[op'.frame.id]
               key == TopicKey(sub.address)
               update == UpdateFrame(sub.address, "undefined")
           IN  /\ trace' = <<Observed(op'.frame), Invoked(op'.frame.id),
                             CalledWithPair(sub.fn, op'.frame.error,
                                            First(op'.frame.result)),
                             Registered(key)>>
               /\ key \in DOMAIN handler_map'
               /\ handler_map'[key] = Val(sub.upd)
               /\ _on_message_run(handler_map', update).trace
                     = <<Observed(update), Invoked(key),
                         CalledWithObject(sub.upd, update)>> ]_vars

\* C18 witness: an ack with a non-null error was routed and replaced the
\* update handler the topic had.
C18_Witness ==
    /\ RoutedObject
    /\ op.frame.error = "err"
    /\ Len(trace) = 4
    /\ trace[4].ev = "register"
    /\ trace[4].key \in TopicKeys
    /\ \E a \in Addresses :
          /\ trace[4].key = TopicKey(a)
          /\ handler_map[TopicKey(a)] = Val(newest[a])
          /\ previous[a] \in Functions
          /\ previous[a] # newest[a]

\* C19: request ids and topic keys do not interfere in handler_map: a
\* dispatch registers under an id and leaves the topic entries alone, the
\* routing of a frame leaves the entries under ids alone, a frame whose name
\* is not "update" never invokes the entry of a topic key, and an update
\* frame never invokes the entry of an id.
C19_KeyspacesSeparate ==
    [][ /\ op'.name \in DispatchNames
           => /\ Topics(handler_map') = Topics(handler_map)
              /\ RegisteredKeys(trace') \subseteq IdKeys
        /\ op'.name = "_on_message"
           => /\ \A k \in (DOMAIN handler_map) \cap IdKeys :
                    handler_map'[k] = handler_map[k]
              /\ RegisteredKeys(trace') \subseteq TopicKeys
              /\ \A i \in 1 .. Len(trace') :
                    trace'[i].ev = "invoke"
                    => /\ op'.frame.name # "update" => trace'[i].key \notin TopicKeys
                       /\ op'.frame.name = "update" => trace'[i].key \notin IdKeys
      ]_vars
====
